---- MODULE Spec2Model ----
(***************************************************************************)
(* A model of lic (src/src/main.rs): a command-line tool that fetches a    *)
(* license template from a registry, substitutes the copyright year and    *)
(* holder, and writes the file LICENSE.                                    *)
(*                                                                         *)
(* A Rust String is modelled as a sequence of one-character strings, so    *)
(* that str::replace and str::trim are computed character by character.    *)
(* A character outside ASCII, or an ASCII control character with no escape *)
(* in a string, is the one-element name of its code point, as "U+00A0".    *)
(* An Option<T> is a sequence of length 0 (None) or 1 (Some).              *)
(***************************************************************************)
EXTENDS Integers, Sequences, FiniteSets, TLC

VARIABLES
    \* the parsed command line and the world the run starts in
    cli, git, clock, registry, file0,
    \* one run of main
    pc, license_key, items, author, year, license_detail,
    final_content, file, exit_code, error, log,
    \* the template renderer on its own
    rpc, template, ryear, rauthor, result, again

vars ==
    <<cli, git, clock, registry, file0, pc, license_key, items,
      author, year, license_detail, final_content, file, exit_code, error, log,
      rpc, template, ryear, rauthor, result, again>>

runVars ==
    <<cli, git, clock, registry, file0, pc, license_key, items,
      author, year, license_detail, final_content, file, exit_code, error, log>>

renderVars ==
    <<rpc, template, ryear, rauthor, result, again>>

-----------------------------------------------------------------------------
(* Option<T> *)

None ==
    <<>>

Some(x) ==
    <<x>>

IsSome(o) ==
    Len(o) = 1

Unwrap(o) ==
    o[1]

-----------------------------------------------------------------------------
(* The placeholder tokens of replace_placeholders, in the order replaced. *)

TokYear1 ==
    <<"[", "y", "e", "a", "r", "]">>

TokYear2 ==
    <<"[", "y", "y", "y", "y", "]">>

TokYear3 ==
    <<"<", "y", "e", "a", "r", ">">>

TokYear4 ==
    <<"Y", "E", "A", "R">>

TokAuthor1 ==
    <<"[", "f", "u", "l", "l", "n", "a", "m", "e", "]">>

TokAuthor2 ==
    <<"[", "n", "a", "m", "e", " ", "o", "f", " ", "c", "o", "p", "y", "r", "i", "g", "h", "t", " ", "o", "w", "n", "e", "r", "]">>

TokAuthor3 ==
    <<"<", "c", "o", "p", "y", "r", "i", "g", "h", "t", " ", "h", "o", "l", "d", "e", "r", "s", ">">>

TokAuthor4 ==
    <<"<", "n", "a", "m", "e", " ", "o", "f", " ", "a", "u", "t", "h", "o", "r", ">">>

YearTokens ==
    {TokYear1, TokYear2, TokYear3, TokYear4}

AuthorTokens ==
    {TokAuthor1, TokAuthor2, TokAuthor3, TokAuthor4}

Tokens ==
    YearTokens \cup AuthorTokens

-----------------------------------------------------------------------------
(* String operations *)

StartsWith(s, p) ==
    /\ Len(p) <= Len(s)
    /\ SubSeq(s, 1, Len(p)) = p

Drop(s, n) ==
    SubSeq(s, n + 1, Len(s))

\* s contains t as a substring
Contains(s, t) ==
    \E i \in 0..(Len(s) - Len(t)) : SubSeq(s, i + 1, i + Len(t)) = t

\* str::replacen(from, to, 1): only the first match is replaced.
RECURSIVE ReplaceFirst(_, _, _)
ReplaceFirst(s, from, to) ==
    IF Len(s) < Len(from) THEN s
    ELSE IF StartsWith(s, from) THEN to \o Drop(s, Len(from))
    ELSE <<Head(s)>> \o ReplaceFirst(Tail(s), from, to)

\* str::replace(from, to) for a non-empty pattern: the non-overlapping matches
\* of from, found left to right, are each replaced by to; the inserted text is
\* not searched again.
RECURSIVE Replace(_, _, _)
Replace(s, from, to) ==
    IF Len(s) < Len(from) THEN s
    ELSE IF StartsWith(s, from) THEN to \o Replace(Drop(s, Len(from)), from, to)
    ELSE <<Head(s)>> \o Replace(Tail(s), from, to)

\* replace_placeholders without the replacement of "YEAR".
replace_placeholders_no_YEAR(t, y, a) ==
    LET r1 == Replace(t, TokYear1, y)
        r2 == Replace(r1, TokYear2, y)
        r3 == Replace(r2, TokYear3, y)
        r5 == Replace(r3, TokAuthor1, a)
        r6 == Replace(r5, TokAuthor2, a)
        r7 == Replace(r6, TokAuthor3, a)
    IN  Replace(r7, TokAuthor4, a)

\* replace_placeholders: eight replacements, each applied to the result of the
\* one before.
replace_placeholders(t, y, a) ==
    LET r1 == Replace(t, TokYear1, y)
        r2 == Replace(r1, TokYear2, y)
        r3 == Replace(r2, TokYear3, y)
        r4 == Replace(r3, TokYear4, y)
        r5 == Replace(r4, TokAuthor1, a)
        r6 == Replace(r5, TokAuthor2, a)
        r7 == Replace(r6, TokAuthor3, a)
    IN  Replace(r7, TokAuthor4, a)

\* char::is_whitespace: the characters with the Unicode property White_Space.
Whitespace ==
    { "\t", "\n", "U+000B", "\f", "\r", " ", "U+0085", "U+00A0", "U+1680",
      "U+2000", "U+2001", "U+2002", "U+2003", "U+2004", "U+2005", "U+2006",
      "U+2007", "U+2008", "U+2009", "U+200A", "U+2028", "U+2029", "U+202F",
      "U+205F", "U+3000" }

RECURSIVE TrimStart(_)
TrimStart(s) ==
    IF s # <<>> /\ Head(s) \in Whitespace THEN TrimStart(Tail(s)) ELSE s

RECURSIVE TrimEnd(_)
TrimEnd(s) ==
    IF s # <<>> /\ s[Len(s)] \in Whitespace
    THEN TrimEnd(SubSeq(s, 1, Len(s) - 1))
    ELSE s

\* str::trim
Trim(s) ==
    TrimEnd(TrimStart(s))

Digit(d) ==
    <<"0", "1", "2", "3", "4", "5", "6", "7", "8", "9">>[d + 1]

RECURSIVE NatToString(_)
NatToString(n) ==
    IF n < 10 THEN <<Digit(n)>>
    ELSE NatToString(n \div 10) \o <<Digit(n % 10)>>

\* i32::to_string
to_string(n) ==
    IF n < 0 THEN <<"-">> \o NatToString(-n) ELSE NatToString(n)

-----------------------------------------------------------------------------
(* The world a run starts in: the command line, the git configuration, the *)
(* clock, the registry and the file LICENSE.                               *)

DefaultKey ==
    <<"m", "i", "t">>

DefaultAuthor ==
    <<"Y", "o", "u", "r", " ", "N", "a", "m", "e">>

KeyGpl ==
    <<"g", "p", "l", "-", "3", ".", "0">>

KeyNope ==
    <<"n", "o", "p", "e">>

NameMit ==
    <<"M", "I", "T">>

NameGpl ==
    <<"G", "P", "L">>

BodyA ==
    <<"<", "y", "e", "a", "r", ">", " ", "<", "n", "a", "m", "e", " ", "o", "f", " ", "a", "u", "t", "h", "o", "r", ">">>

BodyB ==
    <<"C", "o", "p", "y", "r", "i", "g", "h", "t", " ", "(", "c", ")", " ", "[", "y", "e", "a", "r", "]", " ", "[", "f", "u", "l", "l", "n", "a", "m", "e", "]">>

OldFile ==
    <<"o", "l", "d">>

Keys ==
    {DefaultKey, KeyGpl, KeyNope, <<>>}

\* struct LicenseMeta
LicenseMeta(k, n) ==
    [key |-> k, name |-> n, spdx_id |-> n]

\* struct LicenseDetail
LicenseDetail(n, b) ==
    [name |-> n, body |-> b]

\* An HTTP response: its status, whether its body parses as the JSON shape
\* asked for, and the parsed value.
Response(st, js, v) ==
    [status |-> st, json |-> js, value |-> v]

NoDetail ==
    LicenseDetail(<<>>, <<>>)

\* Two registries.  A key the registry does not know is answered 404; the
\* empty key makes the URL that of the listing, whose body is no LicenseDetail.
RegistryA ==
    [list   |-> Response(200, TRUE,
                    <<LicenseMeta(DefaultKey, NameMit), LicenseMeta(KeyGpl, NameGpl)>>),
     detail |-> [k \in Keys |->
                    CASE k = DefaultKey -> Response(200, TRUE, LicenseDetail(NameMit, BodyA))
                      [] k = KeyGpl     -> Response(200, TRUE, LicenseDetail(NameGpl, BodyB))
                      [] k = KeyNope    -> Response(404, FALSE, NoDetail)
                      [] OTHER          -> Response(200, FALSE, NoDetail)]]

RegistryB ==
    [list   |-> Response(503, FALSE, <<>>),
     detail |-> [k \in Keys |->
                    CASE k = DefaultKey -> Response(200, TRUE, LicenseDetail(NameMit, BodyB))
                      [] k = KeyGpl     -> Response(200, FALSE, NoDetail)
                      [] k = KeyNope    -> Response(404, FALSE, NoDetail)
                      [] OTHER          -> Response(200, FALSE, NoDetail)]]

Registries ==
    {RegistryA, RegistryB}

\* The outcome of running `git config user.name`: whether the process could
\* be started, whether it exited with success, whether its output is UTF-8,
\* and the output.
GitOutcome(sp, su, u8, out) ==
    [spawned |-> sp, success |-> su, utf8 |-> u8, stdout |-> out]

GitOutcomes ==
    { GitOutcome(FALSE, FALSE, FALSE, <<>>),
      GitOutcome(TRUE, FALSE, TRUE, <<>>),
      GitOutcome(TRUE, TRUE, FALSE, <<"J">>),
      GitOutcome(TRUE, TRUE, TRUE, <<"J", "o", "\n">>),
      GitOutcome(TRUE, TRUE, TRUE, <<"U+00A0", "J", "o", "\f", "\n">>),
      GitOutcome(TRUE, TRUE, TRUE, <<" ", "\n">>) }

ClockYears ==
    {1999, 2026}

AuthorFlags ==
    {None, Some(<<"A">>), Some(<<>>)}

YearFlags ==
    {None, Some(<<"2", "0", "2", "0">>), Some(<<>>)}

LicenseFlags ==
    {None} \cup {Some(k) : k \in Keys}

\* What the user may type at a text prompt instead of taking the default.
TypedAuthors ==
    {<<"B">>}

TypedYears ==
    {<<"1", "9", "8", "4">>}

\* struct Cli, as Cli::parse() returns it
Cli ==
    [author : AuthorFlags, year : YearFlags, license : LicenseFlags,
     interactive : BOOLEAN]

-----------------------------------------------------------------------------
(* The functions main calls *)

\* get_git_user_name with the exit status ignored and invalid UTF-8 replaced
\* (String::from_utf8_lossy).
get_git_user_name_lossy(g) ==
    Some(Trim(g.stdout))

\* get_git_user_name
get_git_user_name(g) ==
    IF ~g.spawned THEN None
    ELSE IF g.success
    THEN IF g.utf8 THEN Some(Trim(g.stdout)) ELSE None
    ELSE None

\* Response::error_for_status: a 4xx or 5xx status is an error.
error_for_status(resp) ==
    IF resp.status >= 400 /\ resp.status <= 599 THEN None ELSE Some(resp)

\* send, error_for_status, json: None stands for the Err of each.
get_json(resp, sent) ==
    IF ~sent THEN None
    ELSE LET r == error_for_status(resp)
         IN  IF ~IsSome(r) THEN None
             ELSE IF ~Unwrap(r).json THEN None
             ELSE Some(Unwrap(r).value)

\* fetch_licenses_list
fetch_licenses_list(reg, sent) ==
    get_json(reg.list, sent)

\* fetch_license_body
fetch_license_body(reg, key, sent) ==
    get_json(reg.detail[key], sent)

Entry(o, a, k) ==
    [op |-> o, arg |-> a, ok |-> k]

\* An Err returned to main: the process ends with exit code 1.
Fail(kind) ==
    /\ pc' = "done"
    /\ exit_code' = 1
    /\ error' = kind

world ==
    <<cli, git, clock, registry, file0>>

-----------------------------------------------------------------------------
(* One run of main *)

\* The renderer's own variables, which a run of main does not use.
RenderIdle ==
    /\ rpc = "idle"
    /\ template = <<>>
    /\ ryear = <<>>
    /\ rauthor = <<>>
    /\ result = <<>>
    /\ again = <<>>

RunInit ==
    /\ cli \in Cli
    /\ git \in GitOutcomes
    /\ clock \in ClockYears
    /\ registry \in Registries
    /\ file0 \in {None, Some(OldFile)}
    /\ pc = "start"
    /\ license_key = <<>>
    /\ items = <<>>
    /\ author = <<>>
    /\ year = <<>>
    /\ license_detail = None
    /\ final_content = <<>>
    /\ file = file0
    /\ exit_code = 0
    /\ error = "none"
    /\ log = <<>>

\* main: the mode
Main ==
    /\ pc = "start"
    /\ pc' = IF cli.interactive THEN "i_intro" ELSE "c_key"
    /\ UNCHANGED <<license_key, items, author, year, license_detail,
                   final_content, file, exit_code, error, log>>
    /\ UNCHANGED world
    /\ UNCHANGED renderVars

\* handle_interactive: intro(..)?
Intro ==
    /\ pc = "i_intro"
    /\ \E ok \in BOOLEAN :
        /\ log' = Append(log, Entry("intro", <<>>, ok))
        /\ IF ok
           THEN pc' = "i_license" /\ UNCHANGED <<exit_code, error>>
           ELSE Fail("IoError")
    /\ UNCHANGED <<license_key, items, author, year, license_detail,
                   final_content, file>>
    /\ UNCHANGED world
    /\ UNCHANGED renderVars

\* handle_interactive with the key defaulted as in handle_cli: no listing and
\* no selection when --license is absent.
InteractiveLicenseDefaultMit ==
    /\ pc = "i_license"
    /\ license_key' = IF IsSome(cli.license) THEN Unwrap(cli.license) ELSE DefaultKey
    /\ pc' = "i_author"
    /\ UNCHANGED <<items, author, year, license_detail, final_content, file,
                   exit_code, error, log>>
    /\ UNCHANGED world
    /\ UNCHANGED renderVars

\* handle_interactive: the key from --license, or else the listing is fetched
InteractiveLicense ==
    /\ pc = "i_license"
    /\ IF IsSome(cli.license)
       THEN /\ license_key' = Unwrap(cli.license)
            /\ pc' = "i_author"
            /\ UNCHANGED <<items, exit_code, error, log>>
       ELSE \E sent \in BOOLEAN :
            LET r == fetch_licenses_list(registry, sent)
            IN  /\ log' = Append(log, Entry("list", <<>>, IsSome(r)))
                /\ IF IsSome(r)
                   THEN /\ items' = [i \in 1..Len(Unwrap(r)) |->
                                        <<Unwrap(r)[i].key, Unwrap(r)[i].name,
                                          Unwrap(r)[i].spdx_id>>]
                        /\ pc' = "i_select"
                        /\ UNCHANGED <<exit_code, error>>
                   ELSE /\ Fail("RegistryError")
                        /\ UNCHANGED items
                /\ UNCHANGED license_key
    /\ UNCHANGED <<author, year, license_detail, final_content, file>>
    /\ UNCHANGED world
    /\ UNCHANGED renderVars

\* The selection prompt with a cancellation answered by the default key.
SelectCancelDefaults ==
    /\ pc = "i_select"
    /\ \/ \E i \in 1..Len(items) :
            /\ license_key' = items[i][1]
            /\ log' = Append(log, Entry("select", items[i][1], TRUE))
       \/ /\ license_key' = DefaultKey
          /\ log' = Append(log, Entry("select", <<>>, FALSE))
    /\ pc' = "i_author"
    /\ UNCHANGED <<items, author, year, license_detail, final_content, file,
                   exit_code, error>>
    /\ UNCHANGED world
    /\ UNCHANGED renderVars

\* handle_interactive: select(..).items(&items).interact()?
Select ==
    /\ pc = "i_select"
    /\ \/ \E i \in 1..Len(items) :
            /\ license_key' = items[i][1]
            /\ log' = Append(log, Entry("select", items[i][1], TRUE))
            /\ pc' = "i_author"
            /\ UNCHANGED <<exit_code, error>>
       \/ /\ log' = Append(log, Entry("select", <<>>, FALSE))
          /\ Fail("InteractionCancelled")
          /\ UNCHANGED license_key
    /\ UNCHANGED <<items, author, year, license_detail, final_content, file>>
    /\ UNCHANGED world
    /\ UNCHANGED renderVars

\* handle_interactive: the author from --author, or else from the prompt, whose
\* default is the git user name or "Your Name"
InteractiveAuthor ==
    /\ pc = "i_author"
    /\ IF IsSome(cli.author)
       THEN /\ author' = Unwrap(cli.author)
            /\ pc' = "i_year"
            /\ UNCHANGED <<exit_code, error, log>>
       ELSE LET name == get_git_user_name(git)
                default_author == IF IsSome(name) THEN Unwrap(name) ELSE DefaultAuthor
                looked == Append(log, Entry("git", <<>>, IsSome(name)))
            IN  \/ \E v \in {default_author} \cup TypedAuthors :
                     /\ author' = v
                     /\ log' = Append(looked, Entry("input_author", v, TRUE))
                     /\ pc' = "i_year"
                     /\ UNCHANGED <<exit_code, error>>
                \/ /\ log' = Append(looked, Entry("input_author", <<>>, FALSE))
                   /\ Fail("InteractionCancelled")
                   /\ UNCHANGED author
    /\ UNCHANGED <<license_key, items, year, license_detail, final_content, file>>
    /\ UNCHANGED world
    /\ UNCHANGED renderVars

\* handle_interactive: the year from --year, or else from the prompt, whose
\* default is the current year
InteractiveYear ==
    /\ pc = "i_year"
    /\ IF IsSome(cli.year)
       THEN /\ year' = Unwrap(cli.year)
            /\ pc' = "i_fetch"
            /\ UNCHANGED <<exit_code, error, log>>
       ELSE LET current_year == to_string(clock)
            IN  \/ \E v \in {current_year} \cup TypedYears :
                     /\ year' = v
                     /\ log' = Append(log, Entry("input_year", v, TRUE))
                     /\ pc' = "i_fetch"
                     /\ UNCHANGED <<exit_code, error>>
                \/ /\ log' = Append(log, Entry("input_year", <<>>, FALSE))
                   /\ Fail("InteractionCancelled")
                   /\ UNCHANGED year
    /\ UNCHANGED <<license_key, items, author, license_detail, final_content, file>>
    /\ UNCHANGED world
    /\ UNCHANGED renderVars

\* handle_interactive: fetch_license_body(client, &license_key).await?
InteractiveFetch ==
    /\ pc = "i_fetch"
    /\ \E sent \in BOOLEAN :
        LET r == fetch_license_body(registry, license_key, sent)
        IN  /\ log' = Append(log, Entry("fetch", license_key, IsSome(r)))
            /\ IF IsSome(r)
               THEN /\ license_detail' = r
                    /\ pc' = "i_render"
                    /\ UNCHANGED <<exit_code, error>>
               ELSE /\ Fail("RegistryError")
                    /\ UNCHANGED license_detail
    /\ UNCHANGED <<license_key, items, author, year, final_content, file>>
    /\ UNCHANGED world
    /\ UNCHANGED renderVars

\* handle_interactive: replace_placeholders(&license_detail.body, &year, &author)
InteractiveRender ==
    /\ pc = "i_render"
    /\ final_content' = replace_placeholders(Unwrap(license_detail).body, year, author)
    /\ log' = Append(log, Entry("render", <<>>, TRUE))
    /\ pc' = "i_write"
    /\ UNCHANGED <<license_key, items, author, year, license_detail, file,
                   exit_code, error>>
    /\ UNCHANGED world
    /\ UNCHANGED renderVars

\* handle_interactive: fs::write("LICENSE", final_content)?  fs::write is File::create
\* (the file is created, or truncated to nothing) and then write_all: the
\* write succeeds, or the file cannot be opened and is left as it was, or it
\* is opened and the writing fails, which leaves only a part of the content
\* (none of it, or a proper prefix).
InteractiveWrite ==
    /\ pc = "i_write"
    /\ \/ /\ log' = Append(log, Entry("write", <<>>, TRUE))
          /\ file' = Some(final_content)
          /\ pc' = "i_outro"
          /\ UNCHANGED <<exit_code, error>>
       \/ /\ log' = Append(log, Entry("write", <<>>, FALSE))
          /\ Fail("WriteError")
          /\ UNCHANGED file
       \/ \E n \in 0..(Len(final_content) - 1) :
            /\ log' = Append(log, Entry("write", <<>>, FALSE))
            /\ Fail("WriteError")
            /\ file' = Some(SubSeq(final_content, 1, n))
    /\ UNCHANGED <<license_key, items, author, year, license_detail, final_content>>
    /\ UNCHANGED world
    /\ UNCHANGED renderVars

\* handle_interactive: outro(..)?, then Ok(())
Outro ==
    /\ pc = "i_outro"
    /\ \E ok \in BOOLEAN :
        /\ log' = Append(log, Entry("outro", <<>>, ok))
        /\ IF ok
           THEN pc' = "done" /\ exit_code' = 0 /\ UNCHANGED error
           ELSE Fail("IoError")
    /\ UNCHANGED <<license_key, items, author, year, license_detail,
                   final_content, file>>
    /\ UNCHANGED world
    /\ UNCHANGED renderVars

\* handle_cli with the --license flag ignored.
CliKeyAlwaysMit ==
    /\ pc = "c_key"
    /\ license_key' = DefaultKey
    /\ pc' = "c_author"
    /\ UNCHANGED <<items, author, year, license_detail, final_content, file,
                   exit_code, error, log>>
    /\ UNCHANGED world
    /\ UNCHANGED renderVars

\* handle_cli: cli.license.as_deref().unwrap_or("mit")
CliKey ==
    /\ pc = "c_key"
    /\ license_key' = IF IsSome(cli.license) THEN Unwrap(cli.license) ELSE DefaultKey
    /\ pc' = "c_author"
    /\ UNCHANGED <<items, author, year, license_detail, final_content, file,
                   exit_code, error, log>>
    /\ UNCHANGED world
    /\ UNCHANGED renderVars

\* handle_cli: the author from --author, or else the git user name, or else
\* the error "Author name not found"
CliAuthor ==
    /\ pc = "c_author"
    /\ IF IsSome(cli.author)
       THEN /\ author' = Unwrap(cli.author)
            /\ pc' = "c_year"
            /\ UNCHANGED <<exit_code, error, log>>
       ELSE LET name == get_git_user_name(git)
            IN  /\ log' = Append(log, Entry("git", <<>>, IsSome(name)))
                /\ IF IsSome(name)
                   THEN /\ author' = Unwrap(name)
                        /\ pc' = "c_year"
                        /\ UNCHANGED <<exit_code, error>>
                   ELSE /\ Fail("ConfigError")
                        /\ UNCHANGED author
    /\ UNCHANGED <<license_key, items, year, license_detail, final_content, file>>
    /\ UNCHANGED world
    /\ UNCHANGED renderVars

\* handle_cli: the year from --year, or else the current year
CliYear ==
    /\ pc = "c_year"
    /\ year' = IF IsSome(cli.year) THEN Unwrap(cli.year) ELSE to_string(clock)
    /\ pc' = "c_fetch"
    /\ UNCHANGED <<license_key, items, author, license_detail, final_content,
                   file, exit_code, error, log>>
    /\ UNCHANGED world
    /\ UNCHANGED renderVars

\* handle_cli with the error of the fetch replaced by an empty LicenseDetail
\* (unwrap_or_default in place of ?).
CliFetchUnwrapOrDefault ==
    /\ pc = "c_fetch"
    /\ \E sent \in BOOLEAN :
        LET r == fetch_license_body(registry, license_key, sent)
        IN  /\ log' = Append(log, Entry("fetch", license_key, IsSome(r)))
            /\ license_detail' = IF IsSome(r) THEN r ELSE Some(NoDetail)
            /\ pc' = "c_render"
    /\ UNCHANGED <<license_key, items, author, year, final_content, file,
                   exit_code, error>>
    /\ UNCHANGED world
    /\ UNCHANGED renderVars

\* handle_cli: fetch_license_body(client, license_key).await?
CliFetch ==
    /\ pc = "c_fetch"
    /\ \E sent \in BOOLEAN :
        LET r == fetch_license_body(registry, license_key, sent)
        IN  /\ log' = Append(log, Entry("fetch", license_key, IsSome(r)))
            /\ IF IsSome(r)
               THEN /\ license_detail' = r
                    /\ pc' = "c_render"
                    /\ UNCHANGED <<exit_code, error>>
               ELSE /\ Fail("RegistryError")
                    /\ UNCHANGED license_detail
    /\ UNCHANGED <<license_key, items, author, year, final_content, file>>
    /\ UNCHANGED world
    /\ UNCHANGED renderVars

\* handle_cli: replace_placeholders(&license_detail.body, &year, &author)
CliRender ==
    /\ pc = "c_render"
    /\ final_content' = replace_placeholders(Unwrap(license_detail).body, year, author)
    /\ log' = Append(log, Entry("render", <<>>, TRUE))
    /\ pc' = "c_write"
    /\ UNCHANGED <<license_key, items, author, year, license_detail, file,
                   exit_code, error>>
    /\ UNCHANGED world
    /\ UNCHANGED renderVars

\* handle_cli: fs::write("LICENSE", final_content)?  fs::write is File::create
\* (the file is created, or truncated to nothing) and then write_all: the
\* write succeeds, or the file cannot be opened and is left as it was, or it
\* is opened and the writing fails, which leaves only a part of the content
\* (none of it, or a proper prefix).
CliWrite ==
    /\ pc = "c_write"
    /\ \/ /\ log' = Append(log, Entry("write", <<>>, TRUE))
          /\ file' = Some(final_content)
          /\ pc' = "c_print"
          /\ UNCHANGED <<exit_code, error>>
       \/ /\ log' = Append(log, Entry("write", <<>>, FALSE))
          /\ Fail("WriteError")
          /\ UNCHANGED file
       \/ \E n \in 0..(Len(final_content) - 1) :
            /\ log' = Append(log, Entry("write", <<>>, FALSE))
            /\ Fail("WriteError")
            /\ file' = Some(SubSeq(final_content, 1, n))
    /\ UNCHANGED <<license_key, items, author, year, license_detail, final_content>>
    /\ UNCHANGED world
    /\ UNCHANGED renderVars

\* handle_cli: println!(..), then Ok(()).  println! panics when standard
\* output cannot be written: the process then ends with exit code 101.
CliPrint ==
    /\ pc = "c_print"
    /\ \E ok \in BOOLEAN :
        /\ log' = Append(log, Entry("print", <<>>, ok))
        /\ pc' = "done"
        /\ IF ok
           THEN exit_code' = 0 /\ UNCHANGED error
           ELSE exit_code' = 101 /\ error' = "Panic"
    /\ UNCHANGED <<license_key, items, author, year, license_detail,
                   final_content, file>>
    /\ UNCHANGED world
    /\ UNCHANGED renderVars

\* async fn handle_interactive
handle_interactive ==
    \/ Intro
    \/ InteractiveLicense
    \/ Select
    \/ InteractiveAuthor
    \/ InteractiveYear
    \/ InteractiveFetch
    \/ InteractiveRender
    \/ InteractiveWrite
    \/ Outro

\* async fn handle_cli
handle_cli ==
    \/ CliKey
    \/ CliAuthor
    \/ CliYear
    \/ CliFetch
    \/ CliRender
    \/ CliWrite
    \/ CliPrint

Init ==
    /\ RunInit
    /\ RenderIdle

Next ==
    \/ Main
    \/ handle_interactive
    \/ handle_cli

Spec ==
    Init /\ [][Next]_vars

-----------------------------------------------------------------------------
(* The template renderer on its own: replace_placeholders applied to a      *)
(* template, and applied again to its own output.  A template is a          *)
(* concatenation of at most MaxPieces pieces: the eight tokens, fragments   *)
(* of tokens, an unrecognized token and plain text.                         *)

MaxPieces ==
    2

Pieces ==
    Tokens \cup
    { <<"[", "y">>, <<"a", "r", "]">>,
      <<"[", "e", "m", "a", "i", "l", "]">>,
      <<"(", "c", ")", " ">> }

RECURSIVE TemplatesOf(_)
TemplatesOf(n) ==
    IF n = 0 THEN {<<>>}
    ELSE LET shorter == TemplatesOf(n - 1)
         IN  shorter \cup {p \o t : p \in Pieces, t \in shorter}

Templates ==
    TemplatesOf(MaxPieces)

Years ==
    { <<>>, <<"2", "0", "2", "0">>,
      <<"[", "f", "u", "l", "l", "n", "a", "m", "e", "]">> }

Authors ==
    { <<>>, <<"J", "o">>, <<"e">>, <<"Y", "E", "A", "R">> }

\* The variables of a run, which the renderer on its own does not use.
RunIdle ==
    /\ cli = [author |-> None, year |-> None, license |-> None, interactive |-> FALSE]
    /\ git = [spawned |-> FALSE, success |-> FALSE, utf8 |-> FALSE, stdout |-> <<>>]
    /\ clock = 0
    /\ registry = <<>>
    /\ file0 = None
    /\ pc = "idle"
    /\ license_key = <<>>
    /\ items = <<>>
    /\ author = <<>>
    /\ year = <<>>
    /\ license_detail = None
    /\ final_content = <<>>
    /\ file = None
    /\ exit_code = 0
    /\ error = "none"
    /\ log = <<>>

RenderInit ==
    /\ RunIdle
    /\ rpc = "input"
    /\ template \in Templates
    /\ ryear \in Years
    /\ rauthor \in Authors
    /\ result = <<>>
    /\ again = <<>>

\* replace_placeholders(template, year, author)
Render ==
    /\ rpc = "input"
    /\ result' = replace_placeholders(template, ryear, rauthor)
    /\ rpc' = "rendered"
    /\ UNCHANGED <<template, ryear, rauthor, again>>
    /\ UNCHANGED runVars

\* replace_placeholders applied to its own output, with the same values
Rerender ==
    /\ rpc = "rendered"
    /\ again' = replace_placeholders(result, ryear, rauthor)
    /\ rpc' = "rerendered"
    /\ UNCHANGED <<template, ryear, rauthor, result>>
    /\ UNCHANGED runVars

RenderNext ==
    \/ Render
    \/ Rerender

SpecRender ==
    RenderInit /\ [][RenderNext]_vars

-----------------------------------------------------------------------------
(* Properties of the template renderer, checked under SpecRender.          *)

HasToken(s) ==
    \E tok \in Tokens : Contains(s, tok)

\* The substitution of every token occurrence of the original template at
\* once: the template is read left to right, a token found at the current
\* position is replaced by its value and reading goes on after it; the values
\* put in are not read again.  No token is a prefix of another and no two
\* occurrences of tokens overlap, so this is well defined.
RECURSIVE Simultaneous(_, _, _)
Simultaneous(t, y, a) ==
    IF t = <<>> THEN <<>>
    ELSE IF \E tok \in YearTokens : StartsWith(t, tok)
    THEN LET tok == CHOOSE k \in YearTokens : StartsWith(t, k)
         IN  y \o Simultaneous(Drop(t, Len(tok)), y, a)
    ELSE IF \E tok \in AuthorTokens : StartsWith(t, tok)
    THEN LET tok == CHOOSE k \in AuthorTokens : StartsWith(t, k)
         IN  a \o Simultaneous(Drop(t, Len(tok)), y, a)
    ELSE <<Head(t)>> \o Simultaneous(Tail(t), y, a)

\* The characters a token begins or ends with.
TokenEnds ==
    {"[", "]", "<", ">", "Y", "R"}

\* A value that cannot take part in a token: it is not empty, holds none of
\* the characters a token begins or ends with, and is no substring of a token.
Clean(v) ==
    /\ v # <<>>
    /\ \A i \in 1..Len(v) : v[i] \notin TokenEnds
    /\ \A tok \in Tokens : ~Contains(tok, v)

\* C5 as stated: for all templates and all (year, author), the output of
\* replace_placeholders contains none of the eight tokens.
C5_NoTokenInOutput ==
    rpc \in {"rendered", "rerendered"} => ~HasToken(result)

\* C5 as amended: when year and author are both non-empty, hold none of the
\* characters [ ] < > Y R and are no substring of a token, the output of
\* replace_placeholders contains none of the eight tokens.
C5_NoTokenInOutputForCleanValues ==
    (rpc \in {"rendered", "rerendered"} /\ Clean(ryear) /\ Clean(rauthor))
        => ~HasToken(result)

\* C5's case: a template with a year token and an author token rendered with
\* clean values.
C5_Witness ==
    /\ rpc = "rendered"
    /\ Clean(ryear) /\ Clean(rauthor)
    /\ \E tok \in YearTokens : Contains(template, tok)
    /\ \E tok \in AuthorTokens : Contains(template, tok)
    /\ Contains(result, ryear) /\ Contains(result, rauthor)
    /\ ~HasToken(result)

\* C6: the output of replace_placeholders is the simultaneous substitution of
\* the tokens of the original template, whatever the order of replacement;
\* the text put in and all other text pass through unchanged.
C6_EqualsSimultaneous ==
    rpc \in {"rendered", "rerendered"}
        => result = Simultaneous(template, ryear, rauthor)

\* C7 as stated: rendering an already rendered template changes nothing, for
\* all templates and all (year, author).
C7_Idempotent ==
    rpc = "rerendered" => again = result

\* C7 as amended: rendering an already rendered template changes nothing when
\* year and author are both non-empty, hold none of the characters
\* [ ] < > Y R and are no substring of a token.
C7_IdempotentForCleanValues ==
    (rpc = "rerendered" /\ Clean(ryear) /\ Clean(rauthor)) => again = result

\* C7's case: a template that holds a token twice, rendered twice with clean
\* values.
C7_Witness ==
    /\ rpc = "rerendered"
    /\ Clean(ryear) /\ Clean(rauthor)
    /\ \E tok \in Tokens : Contains(template, tok \o tok)
    /\ result # template
    /\ again = result

-----------------------------------------------------------------------------
(* Properties of a run of main, checked under Spec.                        *)

NetworkOps ==
    {"list", "fetch"}

PromptOps ==
    {"select", "input_author", "input_year"}

\* The operation was started in this run.
Did(o) ==
    \E i \in 1..Len(log) : log[i].op = o

\* The operation was started and succeeded.
DidOk(o) ==
    \E i \in 1..Len(log) : log[i].op = o /\ log[i].ok

\* `git config user.name` could not be run, failed, or printed no UTF-8.
IdentityUnavailable ==
    ~git.spawned \/ ~git.success \/ ~git.utf8

\* The name `git config user.name` printed, without surrounding whitespace.
GitIdentity ==
    Trim(git.stdout)

\* The parameters C1 names for direct mode.
DirectKey ==
    IF cli.license # None THEN cli.license[1] ELSE <<"m", "i", "t">>

DirectYear ==
    IF cli.year # None THEN cli.year[1] ELSE to_string(clock)

DirectAuthor ==
    IF cli.author # None THEN cli.author[1] ELSE GitIdentity

\* C1: in direct mode no prompt is shown and the listing is never requested;
\* the license fetched is that of the --license key, or of "mit"; and when the
\* run succeeds LICENSE holds exactly replace_placeholders(body, year, author)
\* for the body the registry returns for that key, the --year value or the
\* current year, and the --author value or the git identity.
C1_DirectModeWritesRenderedLicense ==
    (pc # "idle" /\ ~cli.interactive) =>
        /\ \A i \in 1..Len(log) :
            /\ log[i].op \notin PromptOps \cup {"list", "intro", "outro"}
            /\ log[i].op = "fetch" => log[i].arg = DirectKey
        /\ (pc = "done" /\ exit_code = 0) =>
            /\ DidOk("fetch")
            /\ file = Some(replace_placeholders(
                           registry.detail[DirectKey].value.body,
                           DirectYear, DirectAuthor))

\* C1's case: a successful direct run with no flag at all, over an old LICENSE.
C1_Witness ==
    /\ pc = "done" /\ exit_code = 0
    /\ ~cli.interactive
    /\ cli.license = None /\ cli.author = None /\ cli.year = None
    /\ file0 = Some(OldFile)
    /\ file # file0
    /\ Contains(file[1], to_string(clock))
    /\ Contains(file[1], <<"J", "o">>)

\* C2: in both modes, once a registry request (the listing or the license) has
\* failed, the run is over with a non-zero exit code and LICENSE is as it was
\* before the run.
C2_RegistryFailureLeavesLicense ==
    (\E i \in 1..Len(log) : log[i].op \in NetworkOps /\ ~log[i].ok) =>
        /\ pc = "done"
        /\ exit_code # 0
        /\ error = "RegistryError"
        /\ file = file0
        /\ ~Did("write")

\* C2's case: the registry answers 404 for an unknown key while a LICENSE exists.
C2_Witness ==
    /\ pc = "done"
    /\ \E i \in 1..Len(log) :
        /\ log[i].op = "fetch" /\ ~log[i].ok
        /\ log[i].arg = KeyNope
        /\ registry.detail[log[i].arg].status = 404
    /\ file0 = Some(OldFile)
    /\ file = file0
    /\ exit_code = 1

\* C3: in interactive mode a cancelled prompt is the last thing the run does:
\* the run is over with a non-zero exit code, LICENSE is not written, no later
\* prompt is shown and the license is not fetched.
C3_CancelEndsRun ==
    \A i \in 1..Len(log) :
        (log[i].op \in PromptOps /\ ~log[i].ok) =>
            /\ cli.interactive
            /\ i = Len(log)
            /\ pc = "done"
            /\ exit_code # 0
            /\ error = "InteractionCancelled"
            /\ file = file0
            /\ ~Did("fetch") /\ ~Did("write")

\* C3's case: the year prompt is cancelled after the two prompts before it were
\* answered.
C3_Witness ==
    /\ pc = "done"
    /\ DidOk("select") /\ DidOk("input_author")
    /\ \E i \in 1..Len(log) : log[i].op = "input_year" /\ ~log[i].ok
    /\ file0 = Some(OldFile)
    /\ exit_code = 1

\* C4: in direct mode with no --author and no git identity to be had, the run
\* makes no network call and writes nothing, and ends with the missing-author
\* error and exit code 1; the failed lookup is an absent value, not a crash.
C4_MissingAuthorFailsBeforeNetwork ==
    (pc # "idle" /\ ~cli.interactive /\ cli.author = None /\ IdentityUnavailable) =>
        /\ \A i \in 1..Len(log) : log[i].op \notin NetworkOps \cup {"render", "write"}
        /\ file = file0
        /\ pc \in {"start", "c_key", "c_author", "done"}
        /\ pc = "done" =>
            /\ error = "ConfigError"
            /\ exit_code = 1
            /\ log = <<Entry("git", <<>>, FALSE)>>

\* C4's case: git cannot be started, direct mode, no --author.
C4_Witness ==
    /\ pc = "done"
    /\ ~cli.interactive /\ cli.author = None
    /\ ~git.spawned
    /\ error = "ConfigError"
    /\ Did("git")

\* C8: the license key is not empty when the license is fetched, and author
\* and year are not empty when replace_placeholders is called.
C8_ParametersNonEmpty ==
    /\ \A i \in 1..Len(log) : log[i].op = "fetch" => log[i].arg # <<>>
    /\ Did("render") => (author # <<>> /\ year # <<>>)

\* The place of each step in the order C9 gives.
Rank(o) ==
    CASE o = "intro" -> 0
      [] o = "list" -> 1
      [] o = "select" -> 2
      [] o = "git" -> 3
      [] o = "input_author" -> 4
      [] o = "input_year" -> 5
      [] o = "fetch" -> 6
      [] o = "render" -> 7
      [] o = "write" -> 8
      [] OTHER -> 9

InOrder ==
    \A i, j \in 1..Len(log) : i < j => Rank(log[i].op) < Rank(log[j].op)

\* The key chosen at the selection prompt is one of the listed keys and is the
\* key the license is fetched for.
FetchedKeyIsChosen ==
    \A i, j \in 1..Len(log) :
        (log[i].op = "select" /\ log[j].op = "fetch") =>
            /\ log[j].arg = log[i].arg
            /\ \E n \in 1..Len(registry.list.value) :
                registry.list.value[n].key = log[i].arg

\* C9 as stated: in interactive mode the steps are in order, each prompt is
\* shown if and only if its flag is absent, the listing is requested if and
\* only if --license is absent, and the key fetched is then the chosen one.
C9_PromptShownIffFlagAbsent ==
    (cli.interactive /\ pc = "done") =>
        /\ InOrder
        /\ Did("select") <=> cli.license = None
        /\ Did("input_author") <=> cli.author = None
        /\ Did("input_year") <=> cli.year = None
        /\ Did("list") <=> cli.license = None
        /\ FetchedKeyIsChosen

\* C9 as amended: in interactive mode the steps that happen are in order; a
\* prompt is shown only if its flag is absent and the listing is requested
\* only if --license is absent; and in a run that reaches the fetch of the
\* license each prompt was shown if and only if its flag is absent, the
\* listing was requested if and only if --license is absent, and the key
\* fetched is the key chosen at the selection prompt, one of the listed keys.
C9_PromptShownIffFlagAbsentWhenFetchReached ==
    (pc # "idle" /\ cli.interactive) =>
        /\ InOrder
        /\ Did("select") => cli.license = None
        /\ Did("input_author") => cli.author = None
        /\ Did("input_year") => cli.year = None
        /\ Did("list") => cli.license = None
        /\ FetchedKeyIsChosen
        /\ Did("fetch") =>
            /\ DidOk("select") <=> cli.license = None
            /\ DidOk("input_author") <=> cli.author = None
            /\ DidOk("input_year") <=> cli.year = None
            /\ DidOk("list") <=> cli.license = None
            /\ cli.license # None =>
                \A i \in 1..Len(log) :
                    log[i].op = "fetch" => log[i].arg = cli.license[1]

\* C9's case: an interactive run with no flag that chooses a key other than
\* "mit" and gets to the end.
C9_Witness ==
    /\ pc = "done" /\ exit_code = 0
    /\ cli.interactive
    /\ cli.license = None /\ cli.author = None /\ cli.year = None
    /\ DidOk("list") /\ DidOk("input_author") /\ DidOk("input_year")
    /\ \E i \in 1..Len(log) : log[i].op = "select" /\ log[i].arg = KeyGpl
    /\ \E i \in 1..Len(log) : log[i].op = "fetch" /\ log[i].arg = KeyGpl
    /\ DidOk("write")

\* C10: LICENSE is written at most once in a run, and a run that has written
\* LICENSE ends with exit code 0: a non-zero exit code means LICENSE is as it
\* was, also when the closing message of interactive mode fails.
C10_WrittenImpliesExitZero ==
    /\ Cardinality({i \in 1..Len(log) : log[i].op = "write"}) <= 1
    /\ (pc = "done" /\ DidOk("write")) => exit_code = 0
    /\ (pc = "done" /\ exit_code # 0) => file = file0

====
